---------------------------- MODULE Spec2Model ----------------------------
(***************************************************************************)
(* QFolio: QAOA portfolio selection for the "Magnificent 7" stocks.        *)
(*                                                                         *)
(* The repository holds four optimizer classes that share one pipeline     *)
(* (statistics -> QUBO matrix -> quadratic program -> solver -> analysis): *)
(*   "realtime"  Real Time Implementation/qaoa.py          class QAOA      *)
(*   "mag7"      Small-Scale Implementation/qaoa_mag7.py   Magnificent_7   *)
(*   "simhw"     Small-Scale Implementation/simulator_vs_hardware.py       *)
(*   "yfinance"  yfinance_extraction.py (class + top-level script)         *)
(* Definitions carry the prefix RT_, M7_, SH_ or YF_ of the file they are  *)
(* translated from.                                                        *)
(*                                                                         *)
(* Numbers: the code computes in float64; the model computes in integers.  *)
(* Covariances are drawn as even integers so that the halving at           *)
(* qaoa.py:181 is exact.  np.sqrt(v) is carried as the record Sqrt(v), so  *)
(* that the argument handed to the square root stays visible.              *)
(* Python indices are 0-based: matrices and vectors of length n are        *)
(* functions on Idx = 0..n-1; a solver's bit vector x is a sequence and    *)
(* PyAt(x, i) reads x[i].                                                  *)
(***************************************************************************)
EXTENDS Integers, Sequences, FiniteSets, TLC

\* ------------------------------------------------------------------ bounds
\* The code's universe has 7 tickers; the model keeps the first NAssets.
NAssets == 2

\* ------------------------------------------------------- program constants
RiskAversion    == 1      \* self.risk_aversion = 1.0
PenaltyStrength == 10     \* self.penalty_strength = 10.0

tickers == <<"AAPL", "MSFT", "GOOGL", "AMZN", "NVDA", "TSLA", "META">>
n       == NAssets        \* self.n = len(self.tickers), cut to the bound
Idx     == 0 .. (n - 1)

\* ------------------------------------------------------------ input values
BudgetVals    == 0 .. (n + 1)     \* B as passed by a caller, valid or not
MuVals        == {-1, 2}          \* mean returns produced by np.mean
SigmaDiagVals == {0, 2}           \* variances produced by np.cov
SigmaOffVals  == {-2, 0, 2}       \* covariances produced by np.cov
QVals         == {1, 2}           \* q returned by choose_parameters
LamVals       == {1, 10}          \* lam returned by choose_parameters
EmptyVals     == {-99, 99}        \* whatever np.empty leaves in memory
FunVals       == {-9, 0}          \* result.fun of the hardware COBYLA run

MuSet == [Idx -> MuVals]
\* np.cov returns a symmetric matrix: a diagonal and an upper triangle
Symmetric(d, o) ==
    [i \in Idx |-> [j \in Idx |->
        IF i = j THEN d[i] ELSE IF i < j THEN o[<< i, j >>] ELSE o[<< j, i >>] ]]
\* the covariance matrices drawn: any variances, one covariance for all pairs
SigmaSet == { Symmetric(d, [p \in { r \in Idx \X Idx : r[1] < r[2] } |-> c]) :
                  d \in [Idx -> SigmaDiagVals], c \in SigmaOffVals }

\* all bit vectors of length k, as sequences
RECURSIVE BinVecs(_)
BinVecs(k) == IF k = 0 THEN { <<>> }
              ELSE { Append(v, b) : v \in BinVecs(k - 1), b \in {0, 1} }

PyAt(x, i) == x[i + 1]

\* Python's None, and the uninitialised arrays of np.empty
None == [tag |-> "None"]
\* Python's empty dictionary {}
EmptyDict == [tag |-> "dict"]
EmptyVector(g) == [i \in Idx |-> g]
EmptyMatrix(g) == [i \in Idx |-> [j \in Idx |-> g]]

\* sum of f[0] .. f[k-1]
RECURSIVE SumUpTo(_, _)
SumUpTo(f, k) == IF k = 0 THEN 0 ELSE f[k - 1] + SumUpTo(f, k - 1)

\* sum of the entries of a sequence of integers
RECURSIVE SumSeq(_)
SumSeq(s) == IF s = <<>> THEN 0 ELSE Head(s) + SumSeq(Tail(s))

Max(a, b) == IF a >= b THEN a ELSE b
Min(a, b) == IF a <= b THEN a ELSE b
Abs(a)    == IF a >= 0 THEN a ELSE -a

\* np.sqrt(v), kept symbolic
Sqrt(v) == [tag |-> "sqrt", arg |-> v]

VARIABLES
    impl,              \* which of the four classes the object is
    pc,                \* position of the caller: "new", "constructed", ...
    B,                 \* self.B
    data,              \* self.data: "none" or "loaded"
    mu,                \* self.mu
    sigma,             \* self.sigma
    risk_aversion,     \* self.risk_aversion (self.q in yfinance_extraction)
    penalty_strength,  \* self.penalty_strength (self.lam there)
    qubo_matrix,       \* self.qubo_matrix
    program,           \* the QuadraticProgram built last (self.program in simhw)
    backend,           \* self.backend: TRUE when a hardware backend was found
    handed,            \* the problem the last solve call handed to its solver
    result,            \* what the last solve call returned
    report,            \* what analyze_solution returned for it
    err,               \* the exception that ended the last call, or "none"
    cause,             \* the exception raised inside the last solve call, or "none"
    kept,              \* the matrix the first build_qubo_matrix call returned,
                       \* as the caller who kept the reference sees it now
    kept_value,        \* a copy of that matrix taken when it was returned
    rebuilt,           \* the matrices returned by the further calls, in order
    sim_result,        \* compare_optimizations: what simulator_optimization returned
    hw_result,         \* compare_optimizations: what hardware_optimization returned
    results,           \* the dictionary compare_optimizations returned
    comparison,        \* the COMPARISON ANALYSIS lines display_comparison printed
    files,             \* the CSV files of Real Time Implementation/Data, per ticker
    frame,             \* the contents of self.data: price series per ticker
    returns_matrix,    \* what compute_returns returned
    counts,            \* the measurement counts handed to _process_qaoa_counts
    layout,            \* circuit.layout of the transpiled circuit, or None
    decoded,           \* what _process_qaoa_counts returned
    latest_result,     \* main.py: the global latest_result
    startup_results,   \* main.py: the module-level name results
    job,               \* main.py: the scheduler thread inside run_qaoa_job
    request,           \* main.py: a request thread inside home()
    page,              \* main.py: the page home() returned last
    completed          \* main.py: results of the jobs that returned, in order

vars == << impl, pc, B, data, mu, sigma, risk_aversion, penalty_strength,
           qubo_matrix, program, backend, handed, result, report, err, cause,
           kept, kept_value, rebuilt, sim_result, hw_result, results, comparison,
           files, frame, returns_matrix, counts, layout, decoded,
           latest_result, startup_results, job, request, page, completed >>

\* the variables of repeated builder calls and of the comparison
rebuild_vars == << kept, kept_value, rebuilt >>
compare_vars == << sim_result, hw_result, results, comparison >>
\* the variables of the price data, of the count decoding and of the web
\* front end
estimator_vars == << files, frame, returns_matrix >>
decode_vars    == << counts, layout, decoded >>
web_vars       == << latest_result, startup_results, job, request, page, completed >>


\* ===================================================== QUBO construction
\* The three "triangular" builders start from np.zeros, write the diagonal,
\* then for i < j write Q[i,j] and Q[j,i] from the same sigma[i,j].

\* mutant of RT_build_qubo_matrix: the penalty on the diagonal is
\* lambda*(1 - B)
RT_build_qubo_matrix_penalty_1_minus_B(mu_, sigma_) ==
    [i \in Idx |-> [j \in Idx |->
        IF i = j
        THEN risk_aversion * sigma_[i][i] - mu_[i] + penalty_strength * (1 - B)
        ELSE IF i < j
             THEN risk_aversion * sigma_[i][j] + 2 * penalty_strength
             ELSE risk_aversion * sigma_[j][i] + 2 * penalty_strength ]]

\* mutant of RT_build_qubo_matrix: the diagonal penalty is written for the
\* first asset only
RT_build_qubo_matrix_penalty_first_only(mu_, sigma_) ==
    [i \in Idx |-> [j \in Idx |->
        IF i = j
        THEN risk_aversion * sigma_[i][i] - mu_[i]
             + (IF i = 0 THEN penalty_strength * (1 - 2 * B) ELSE 0)
        ELSE IF i < j
             THEN risk_aversion * sigma_[i][j] + 2 * penalty_strength
             ELSE risk_aversion * sigma_[j][i] + 2 * penalty_strength ]]

\* QAOA.build_qubo_matrix(self, mu, sigma): q, lambda and B are the fields
RT_build_qubo_matrix(mu_, sigma_) ==
    [i \in Idx |-> [j \in Idx |->
        IF i = j
        THEN risk_aversion * sigma_[i][i] - mu_[i] + penalty_strength * (1 - 2 * B)
        ELSE IF i < j
             THEN risk_aversion * sigma_[i][j] + 2 * penalty_strength
             ELSE risk_aversion * sigma_[j][i] + 2 * penalty_strength ]]

\* mutant of M7_build_qubo_matrix: the mirror write of line 146 is missing,
\* the lower triangle keeps the zeros of np.zeros
M7_build_qubo_matrix_no_mirror(mu_, sigma_, risk_aversion_, penalty_strength_, B_) ==
    [i \in Idx |-> [j \in Idx |->
        IF i = j
        THEN risk_aversion_ * sigma_[i][i] - mu_[i] + penalty_strength_ * (1 - 2 * B_)
        ELSE IF i < j
             THEN risk_aversion_ * sigma_[i][j] + 2 * penalty_strength_
             ELSE 0 ]]

\* qaoa_mag7.Magnificent_7.build_qubo_matrix(mu, sigma, risk_aversion, penalty_strength, B)
M7_build_qubo_matrix(mu_, sigma_, risk_aversion_, penalty_strength_, B_) ==
    [i \in Idx |-> [j \in Idx |->
        IF i = j
        THEN risk_aversion_ * sigma_[i][i] - mu_[i] + penalty_strength_ * (1 - 2 * B_)
        ELSE IF i < j
             THEN risk_aversion_ * sigma_[i][j] + 2 * penalty_strength_
             ELSE risk_aversion_ * sigma_[j][i] + 2 * penalty_strength_ ]]

\* mutant of SH_build_qubo_matrix: the expected return is added on the
\* diagonal instead of subtracted
SH_build_qubo_matrix_plus_mu(mu_, sigma_, risk_aversion_, penalty_strength_, B_) ==
    [i \in Idx |-> [j \in Idx |->
        IF i = j
        THEN risk_aversion_ * sigma_[i][i] + mu_[i] + penalty_strength_ * (1 - 2 * B_)
        ELSE IF i < j
             THEN risk_aversion_ * sigma_[i][j] + 2 * penalty_strength_
             ELSE risk_aversion_ * sigma_[j][i] + 2 * penalty_strength_ ]]

\* simulator_vs_hardware.Magnificent_7.build_qubo_matrix(mu, sigma, risk_aversion, penalty_strength, B)
SH_build_qubo_matrix(mu_, sigma_, risk_aversion_, penalty_strength_, B_) ==
    [i \in Idx |-> [j \in Idx |->
        IF i = j
        THEN risk_aversion_ * sigma_[i][i] - mu_[i] + penalty_strength_ * (1 - 2 * B_)
        ELSE IF i < j
             THEN risk_aversion_ * sigma_[i][j] + 2 * penalty_strength_
             ELSE risk_aversion_ * sigma_[j][i] + 2 * penalty_strength_ ]]

\* mutant of YF_build_qubo_matrix: every entry is added to what
\* self.qubo_matrix holds instead of overwriting it
YF_build_qubo_matrix_accumulate(mu_, sigma_, q_, lam_, B_) ==
    [i \in Idx |-> [j \in Idx |->
        qubo_matrix[i][j] +
        (IF i = j
         THEN q_ * sigma_[i][i] - mu_[i] + lam_ * (1 - 2 * B_)
         ELSE q_ * sigma_[i][j] + 2 * lam_) ]]

\* yfinance_extraction.Magnificent_7.build_qubo_matrix(mu, sigma, q, lam, B):
\* overwrites every entry of self.qubo_matrix, each from its own sigma[i][j]
YF_build_qubo_matrix(mu_, sigma_, q_, lam_, B_) ==
    [i \in Idx |-> [j \in Idx |->
        IF i = j
        THEN q_ * sigma_[i][i] - mu_[i] + lam_ * (1 - 2 * B_)
        ELSE q_ * sigma_[i][j] + 2 * lam_ ]]

\* ===================================================== quadratic program
UpperPairs == { p \in Idx \X Idx : p[1] < p[2] }

\* mutant of LinearConstraint: the budget as an upper limit
LinearConstraint_at_most(rhs_) ==
    [linear |-> [i \in Idx |-> 1], sense |-> "<=", rhs |-> rhs_]

\* program.linear_constraint(linear={i: 1 ...}, sense="==", rhs=self.B)
LinearConstraint(rhs_) ==
    [linear |-> [i \in Idx |-> 1], sense |-> "==", rhs |-> rhs_]

\* QuadraticProgram after minimize(linear, quadratic) and one linear_constraint
QuadraticProgram(linear_, quadratic_, constraint_) ==
    [kind |-> "QuadraticProgram", linear |-> linear_, quadratic |-> quadratic_,
     constraints |-> << constraint_ >>]

\* mutant of RT_build_quadratic_program: the upper triangle is doubled, as
\* in minimize_qubo
RT_build_quadratic_program_doubled(qubo) ==
    QuadraticProgram(
        [i \in Idx |-> qubo[i][i]],
        [p \in { r \in UpperPairs : qubo[r[1]][r[2]] # 0 } |-> 2 * qubo[p[1]][p[2]]],
        LinearConstraint(B))

\* QAOA.build_quadratic_program: diagonal -> linear, non-zero upper
\* triangle -> quadratic, taken as they are
RT_build_quadratic_program(qubo) ==
    QuadraticProgram(
        [i \in Idx |-> qubo[i][i]],
        [p \in { r \in UpperPairs : qubo[r[1]][r[2]] # 0 } |-> qubo[p[1]][p[2]]],
        LinearConstraint(B))

\* qaoa_mag7.Magnificent_7.build_quadratic_program
M7_build_quadratic_program(qubo) ==
    QuadraticProgram(
        [i \in Idx |-> qubo[i][i]],
        [p \in { r \in UpperPairs : qubo[r[1]][r[2]] # 0 } |-> qubo[p[1]][p[2]]],
        LinearConstraint(B))

\* simulator_vs_hardware.Magnificent_7.build_quadratic_program
SH_build_quadratic_program(qubo) ==
    QuadraticProgram(
        [i \in Idx |-> qubo[i][i]],
        [p \in { r \in UpperPairs : qubo[r[1]][r[2]] # 0 } |-> qubo[p[1]][p[2]]],
        LinearConstraint(B))

\* yfinance_extraction.Magnificent_7.minimize_qubo: the upper triangle is
\* doubled
YF_minimize_qubo(qubo) ==
    QuadraticProgram(
        [i \in Idx |-> qubo[i][i]],
        [p \in UpperPairs |-> 2 * qubo[p[1]][p[2]]],
        LinearConstraint(B))

\* sum over a set of index pairs of quadratic[p] * x[p1] * x[p2]
RECURSIVE QuadraticValue(_, _, _)
QuadraticValue(quadratic_, S, x) ==
    IF S = {} THEN 0
    ELSE LET p == CHOOSE r \in S : TRUE
         IN  quadratic_[p] * PyAt(x, p[1]) * PyAt(x, p[2])
             + QuadraticValue(quadratic_, S \ {p}, x)

\* value of the program's objective at the bit vector x
Objective(prog, x) ==
    SumUpTo([i \in Idx |-> prog.linear[i] * PyAt(x, i)], n)
    + QuadraticValue(prog.quadratic, DOMAIN prog.quadratic, x)

\* mutant of SH_qubo_to_pauli_operator: the Hamiltonian is built from the
\* diagonal alone, the off-diagonal entries of the matrix are not read
SH_qubo_to_pauli_operator_diagonal_only(qubo) ==
    [kind     |-> "SparsePauliOp",
     z        |-> [i \in { k \in Idx : qubo[k][k] # 0 } |-> -2 * qubo[i][i]],
     zz       |-> [p \in {} |-> 0],
     identity |-> 2 * SumUpTo([i \in Idx |-> qubo[i][i]], n)]

\* Magnificent_7._qubo_to_pauli_operator: the Hamiltonian of the hardware
\* path, built from the matrix alone.  Coefficients are kept in quarters:
\* -0.5*Q[i,i] is -2*Q[i,i], 0.25*Q[i,j] is Q[i,j], 0.5*trace is 2*trace.
\* Keys are positions in the Pauli string.
SH_qubo_to_pauli_operator(qubo) ==
    [kind     |-> "SparsePauliOp",
     z        |-> [i \in { k \in Idx : qubo[k][k] # 0 } |-> -2 * qubo[i][i]],
     zz       |-> [p \in { r \in UpperPairs : qubo[r[1]][r[2]] # 0 } |-> qubo[p[1]][p[2]]],
     identity |-> 2 * SumUpTo([i \in Idx |-> qubo[i][i]], n)]

\* ===================================================== solver results
\* result object of MinimumEigenOptimizer.solve / QAOAResult: x is a bit
\* vector, or None when x_none holds
Result(x_, fval_) == [tag |-> "result", x_none |-> FALSE, x |-> x_, fval |-> fval_]
ResultXNone       == [tag |-> "result", x_none |-> TRUE, x |-> << >>, fval |-> 0]

\* what solver.solve(program) may return: QAOA is approximate, so any bit
\* vector, reported with the program's objective value at it
SolverResults(prog) ==
    { Result(x, Objective(prog, x)) : x \in BinVecs(n) } \cup { ResultXNone }

\* what the hardware path may return when a backend exists
HardwareResults == { Result(x, f) : x \in BinVecs(n), f \in FunVals } \cup { None }

\* ===================================================== solution analysis
\* [i for i in range(self.n) if x_opt[i] == 1], from index i on
RECURSIVE SelectedFrom(_, _)
SelectedFrom(x, i) ==
    IF i >= n THEN << >>
    ELSE (IF PyAt(x, i) = 1 THEN << i >> ELSE << >>) \o SelectedFrom(x, i + 1)

selected_indices(x) == SelectedFrom(x, 0)

\* mutant of selected_assets: the list is built back to front
selected_assets_reversed(x) ==
    LET sel == selected_indices(x)
    IN  [k \in 1 .. Len(sel) |-> tickers[sel[Len(sel) + 1 - k] + 1]]

\* [self.tickers[i] for i in range(self.n) if x_opt[i] == 1]
selected_assets(x) ==
    LET sel == selected_indices(x)
    IN  [k \in 1 .. Len(sel) |-> tickers[sel[k] + 1]]

\* np.sum([self.mu[i, 0] for i in selected_indices])
portfolio_return(sel, mu_) == SumSeq([k \in 1 .. Len(sel) |-> mu_[sel[k]]])

\* a plain number in a report, as against Sqrt(v)
Number(v) == [tag |-> "number", val |-> v]

Tuple3None == [tag |-> "tuple3"]       \* return None, None, None
Tuple4None == [tag |-> "tuple4none"]   \* return None, None, None, None
Raised(e)  == [tag |-> "raise", exc |-> e]
Tuple4(assets_, return_, risk_, fval_) ==
    [tag |-> "tuple4", selected_assets |-> assets_, portfolio_return |-> return_,
     portfolio_risk |-> risk_, fval |-> fval_]

\* qaoa.py:174-181: diagonal once, cross terms doubled, then the whole halved
RT_portfolio_variance(sel, sigma_) ==
    SumSeq([k \in 1 .. Len(sel) |->
        SumSeq([l \in 1 .. Len(sel) |->
            IF sel[k] = sel[l] THEN sigma_[sel[k]][sel[l]]
                               ELSE 2 * sigma_[sel[k]][sel[l]] ])]) \div 2

\* qaoa_mag7.py:218-221: the plain double sum
M7_portfolio_variance(sel, sigma_) ==
    SumSeq([k \in 1 .. Len(sel) |->
        SumSeq([l \in 1 .. Len(sel) |-> sigma_[sel[k]][sel[l]] ])])

\* simulator_vs_hardware.py:578-581: the plain double sum
SH_portfolio_variance(sel, sigma_) ==
    SumSeq([k \in 1 .. Len(sel) |->
        SumSeq([l \in 1 .. Len(sel) |-> sigma_[sel[k]][sel[l]] ])])

\* mutant of RT_analyze_solution: the return is summed over all of
\* range(self.n)
RT_analyze_solution_sum_all(res) ==
    IF res.x_none THEN Tuple3None
    ELSE IF Len(res.x) < n THEN Raised("IndexError")
    ELSE LET sel == selected_indices(res.x)
         IN  IF Len(sel) > 0
             THEN Tuple4(selected_assets(res.x), SumUpTo(mu, n),
                         Sqrt(RT_portfolio_variance(sel, sigma)), res.fval)
             ELSE Tuple4(selected_assets(res.x), 0, Number(0), res.fval)

\* QAOA.analyze_solution(self, result)
RT_analyze_solution(res) ==
    IF res.x_none THEN Tuple3None
    ELSE IF Len(res.x) < n THEN Raised("IndexError")
    ELSE LET sel == selected_indices(res.x)
         IN  IF Len(sel) > 0
             THEN Tuple4(selected_assets(res.x), portfolio_return(sel, mu),
                         Sqrt(RT_portfolio_variance(sel, sigma)), res.fval)
             ELSE Tuple4(selected_assets(res.x), 0, Number(0), res.fval)

\* qaoa_mag7.Magnificent_7.analyze_solution(self, result)
M7_analyze_solution(res) ==
    IF res.x_none THEN Tuple3None
    ELSE IF Len(res.x) < n THEN Raised("IndexError")
    ELSE LET sel == selected_indices(res.x)
         IN  IF Len(sel) > 0
             THEN Tuple4(selected_assets(res.x), portfolio_return(sel, mu),
                         Sqrt(M7_portfolio_variance(sel, sigma)), res.fval)
             ELSE Tuple4(selected_assets(res.x), 0, Number(0), res.fval)

\* simulator_vs_hardware.Magnificent_7.analyze_solution(self, result): the
\* cardinality is compared with self.B only to print a warning
SH_analyze_solution(res) ==
    IF res = None THEN Tuple4None
    ELSE IF res.x_none THEN Tuple4None          \* len(None) raises, caught
    ELSE IF Len(res.x) # n THEN Tuple4None
    ELSE LET sel == selected_indices(res.x)
         IN  IF Len(sel) = 0
             THEN Tuple4(<< >>, 0, Number(0), res.fval)
             ELSE Tuple4(selected_assets(res.x), portfolio_return(sel, mu),
                         Sqrt(Max(0, SH_portfolio_variance(sel, sigma))), res.fval)

\* ===================================================== the state machine
\* no object constructed yet
ObjectIdle ==
    /\ B = None
    /\ data = "none"
    /\ mu = None
    /\ sigma = None
    /\ risk_aversion = None
    /\ penalty_strength = None
    /\ qubo_matrix = None
    /\ program = None
    /\ backend = FALSE
    /\ handed = None
    /\ result = None
    /\ report = None
    /\ err = "none"
    /\ cause = "none"
    /\ kept = None
    /\ kept_value = None
    /\ rebuilt = << >>
    /\ sim_result = None
    /\ hw_result = None
    /\ results = None
    /\ comparison = None

\* no CSV file written, no price data loaded
EstimatorIdle ==
    /\ files = [i \in Idx |-> None]
    /\ frame = None
    /\ returns_matrix = None

\* no counts sampled
DecodeIdle ==
    /\ counts = << >>
    /\ layout = None
    /\ decoded = None

\* main.py not imported
WebIdle ==
    /\ latest_result = EmptyDict
    /\ startup_results = None
    /\ job = None
    /\ request = None
    /\ page = None
    /\ completed = << >>

Init ==
    /\ impl = "none"
    /\ pc = "new"
    /\ ObjectIdle
    /\ EstimatorIdle
    /\ DecodeIdle
    /\ WebIdle

ValidBudget(b) == 1 <= b /\ b <= n

\* QAOA.__init__(B): the budget is checked first, the CSV files are read last
RT_init ==
    /\ pc = "new"
    /\ UNCHANGED << estimator_vars, decode_vars, web_vars >>
    /\ UNCHANGED << cause, rebuild_vars, compare_vars >>
    /\ \E b \in BudgetVals, g \in EmptyVals :
       /\ impl' = "realtime"
       /\ IF ~ValidBudget(b)
          THEN /\ pc' = "failed"
               /\ err' = "ValueError"
               /\ UNCHANGED << B, data, mu, sigma, risk_aversion, penalty_strength,
                               qubo_matrix >>
          ELSE /\ pc' = "constructed"
               /\ B' = b
               /\ mu' = EmptyVector(g)
               /\ sigma' = EmptyMatrix(g)
               /\ risk_aversion' = RiskAversion
               /\ penalty_strength' = PenaltyStrength
               /\ qubo_matrix' = EmptyMatrix(g)
               /\ data' = "loaded"
               /\ err' = "none"
       /\ UNCHANGED << program, backend, handed, result, report >>

\* qaoa_mag7.Magnificent_7.__init__(B, ...): check, download, then the fields
M7_init ==
    /\ pc = "new"
    /\ UNCHANGED << estimator_vars, decode_vars, web_vars >>
    /\ UNCHANGED << cause, rebuild_vars, compare_vars >>
    /\ \E b \in BudgetVals, g \in EmptyVals :
       /\ impl' = "mag7"
       /\ IF ~ValidBudget(b)
          THEN /\ pc' = "failed"
               /\ err' = "ValueError"
               /\ UNCHANGED << B, data, mu, sigma, risk_aversion, penalty_strength,
                               qubo_matrix >>
          ELSE /\ pc' = "constructed"
               /\ B' = b
               /\ data' = "loaded"
               /\ mu' = EmptyVector(g)
               /\ sigma' = EmptyMatrix(g)
               /\ risk_aversion' = RiskAversion
               /\ penalty_strength' = PenaltyStrength
               /\ qubo_matrix' = EmptyMatrix(g)
               /\ err' = "none"
       /\ UNCHANGED << program, backend, handed, result, report >>

\* simulator_vs_hardware.Magnificent_7.__init__, lines 28-43: check, download,
\* validate_data; the constructor goes on with SH_init_statistics
SH_init ==
    /\ pc = "new"
    /\ UNCHANGED << estimator_vars, decode_vars, web_vars >>
    /\ UNCHANGED << cause, rebuild_vars, compare_vars >>
    /\ \E b \in BudgetVals :
       /\ impl' = "simhw"
       /\ IF ~ValidBudget(b)
          THEN /\ pc' = "failed"
               /\ err' = "ValueError"
               /\ UNCHANGED << B, data >>
          ELSE /\ pc' = "constructed"
               /\ B' = b
               /\ data' = "loaded"
               /\ err' = "none"
       /\ UNCHANGED << mu, sigma, risk_aversion, penalty_strength, qubo_matrix,
                       program, backend, handed, result, report >>

\* yfinance_extraction.Magnificent_7.__init__(B, ...): download first, B is
\* stored as given
YF_init ==
    /\ pc = "new"
    /\ UNCHANGED << estimator_vars, decode_vars, web_vars >>
    /\ UNCHANGED << cause, rebuild_vars, compare_vars >>
    /\ \E b \in BudgetVals, g \in EmptyVals :
       /\ impl' = "yfinance"
       /\ pc' = "constructed"
       /\ data' = "loaded"
       /\ mu' = EmptyVector(g)
       /\ sigma' = EmptyMatrix(g)
       /\ B' = b
       /\ risk_aversion' = 0
       /\ penalty_strength' = 0
       /\ qubo_matrix' = EmptyMatrix(g)
       /\ UNCHANGED << program, backend, handed, result, report, err >>

\* compute_returns, compute_mu, covariance_matrix: the statistics np.mean and
\* np.cov produce from the price data are an input of the model
compute_statistics ==
    /\ pc = "constructed"
    /\ pc' = "stats"
    /\ UNCHANGED << estimator_vars, decode_vars, web_vars >>
    /\ UNCHANGED << cause, rebuild_vars, compare_vars >>
    /\ impl \in {"realtime", "mag7", "yfinance"}
    /\ \E m \in MuSet, s \in SigmaSet :
       /\ mu' = m
       /\ sigma' = s
       /\ UNCHANGED << impl, B, data, risk_aversion, penalty_strength, qubo_matrix,
                       program, backend, handed, result, report, err >>

\* simulator_vs_hardware.Magnificent_7.__init__, lines 45-57: statistics,
\* parameters, setup_ibm_hardware (a backend is found or not)
SH_init_statistics ==
    /\ pc = "constructed"
    /\ pc' = "stats"
    /\ UNCHANGED << estimator_vars, decode_vars, web_vars >>
    /\ UNCHANGED << cause, rebuild_vars, compare_vars >>
    /\ impl = "simhw"
    /\ \E m \in MuSet, s \in SigmaSet, bk \in BOOLEAN :
       /\ mu' = m
       /\ sigma' = s
       /\ risk_aversion' = RiskAversion
       /\ penalty_strength' = PenaltyStrength
       /\ backend' = bk
       /\ UNCHANGED << impl, B, data, qubo_matrix, program, handed, result, report,
                       err >>

\* yfinance_extraction.Magnificent_7.choose_parameters: q and lam are ratios
\* of norms of mu and sigma; the model draws them
YF_choose_parameters ==
    /\ pc = "stats"
    /\ pc' = "params"
    /\ UNCHANGED << estimator_vars, decode_vars, web_vars >>
    /\ UNCHANGED << cause, rebuild_vars, compare_vars >>
    /\ impl = "yfinance"
    /\ \E q_ \in QVals, lam_ \in LamVals :
       /\ risk_aversion' = q_
       /\ penalty_strength' = lam_
       /\ UNCHANGED << impl, B, data, mu, sigma, qubo_matrix, program, backend,
                       handed, result, report, err >>

\* the call of build_qubo_matrix in run_optimization, __init__ or the script
build_qubo_matrix ==
    /\ \/ pc = "stats" /\ impl \in {"realtime", "mag7", "simhw"}
       \/ pc = "params" /\ impl = "yfinance"
    /\ pc' = "qubo"
    /\ UNCHANGED << estimator_vars, decode_vars, web_vars >>
    /\ UNCHANGED << cause, rebuild_vars, compare_vars >>
    /\ qubo_matrix' =
         CASE impl = "realtime" -> RT_build_qubo_matrix(mu, sigma)
           [] impl = "mag7"     -> M7_build_qubo_matrix(mu, sigma, risk_aversion,
                                                        penalty_strength, B)
           [] impl = "simhw"    -> SH_build_qubo_matrix(mu, sigma, risk_aversion,
                                                        penalty_strength, B)
           [] impl = "yfinance" -> YF_build_qubo_matrix(mu, sigma, risk_aversion,
                                                        penalty_strength, B)
    /\ UNCHANGED << impl, B, data, mu, sigma, risk_aversion, penalty_strength,
                    program, backend, handed, result, report, err >>

\* the call of build_quadratic_program / minimize_qubo that follows
build_quadratic_program ==
    /\ pc = "qubo"
    /\ pc' = "program"
    /\ UNCHANGED << estimator_vars, decode_vars, web_vars >>
    /\ UNCHANGED << cause, rebuild_vars, compare_vars >>
    /\ program' =
         CASE impl = "realtime" -> RT_build_quadratic_program(qubo_matrix)
           [] impl = "mag7"     -> M7_build_quadratic_program(qubo_matrix)
           [] impl = "simhw"    -> SH_build_quadratic_program(qubo_matrix)
           [] impl = "yfinance" -> YF_minimize_qubo(qubo_matrix)
    /\ UNCHANGED << impl, B, data, mu, sigma, risk_aversion, penalty_strength,
                    qubo_matrix, backend, handed, result, report, err >>

\* quantum_optimizer(program) of qaoa.py and qaoa_mag7.py returns
quantum_optimizer ==
    /\ pc = "program"
    /\ pc' = "solved"
    /\ UNCHANGED << estimator_vars, decode_vars, web_vars >>
    /\ UNCHANGED << rebuild_vars, compare_vars >>
    /\ impl \in {"realtime", "mag7"}
    /\ handed' = program
    /\ result' \in SolverResults(program)
    /\ cause' = "none"
    /\ UNCHANGED << impl, B, data, mu, sigma, risk_aversion, penalty_strength,
                    qubo_matrix, program, backend, report, err >>

\* ... or the solver fails: raise Exception("Optimization failed: ...")
quantum_optimizer_raises ==
    /\ pc = "program"
    /\ pc' = "failed"
    /\ UNCHANGED << estimator_vars, decode_vars, web_vars >>
    /\ UNCHANGED << rebuild_vars, compare_vars >>
    /\ impl \in {"realtime", "mag7"}
    /\ handed' = program
    /\ cause' = "SolverError"
    /\ err' = "Exception"         \* its message carries str(e)
    /\ UNCHANGED << impl, B, data, mu, sigma, risk_aversion, penalty_strength,
                    qubo_matrix, program, backend, result, report >>

\* yfinance_extraction.Magnificent_7.quantum_simulator(program): no try
YF_quantum_simulator ==
    /\ pc = "program"
    /\ pc' = "solved"
    /\ UNCHANGED << estimator_vars, decode_vars, web_vars >>
    /\ UNCHANGED << rebuild_vars, compare_vars >>
    /\ impl = "yfinance"
    /\ handed' = program
    /\ result' \in SolverResults(program)
    /\ cause' = "none"
    /\ UNCHANGED << impl, B, data, mu, sigma, risk_aversion, penalty_strength,
                    qubo_matrix, program, backend, report, err >>

\* ... or solver.solve raises and the exception passes through
YF_quantum_simulator_raises ==
    /\ pc = "program"
    /\ impl = "yfinance"
    /\ pc' = "failed"
    /\ UNCHANGED << estimator_vars, decode_vars, web_vars >>
    /\ UNCHANGED << rebuild_vars, compare_vars >>
    /\ handed' = program
    /\ cause' = "SolverError"
    /\ err' = "SolverError"
    /\ UNCHANGED << impl, B, data, mu, sigma, risk_aversion, penalty_strength,
                    qubo_matrix, program, backend, result, report >>

\* simulator_vs_hardware.Magnificent_7.simulator_optimization: the result, or
\* None when the solver raised
SH_simulator_optimization ==
    /\ pc = "program"
    /\ pc' = "solved"
    /\ UNCHANGED << estimator_vars, decode_vars, web_vars >>
    /\ UNCHANGED << rebuild_vars, compare_vars >>
    /\ impl = "simhw"
    /\ handed' = program
    /\ result' \in SolverResults(program) \cup { None }
    /\ cause' = IF result' = None THEN "SolverError" ELSE "none"
    /\ UNCHANGED << impl, B, data, mu, sigma, risk_aversion, penalty_strength,
                    qubo_matrix, program, backend, report, err >>

\* what hardware_optimization returns once its jobs have answered, with the
\* exception raised on the way: the decoded counts (None when no bitstring
\* was counted), or None after an exception
HardwareOutcomes == { << r, "none" >> : r \in HardwareResults }
                    \cup { << None, "SolverError" >> }

\* simulator_vs_hardware.Magnificent_7.hardware_optimization: without a
\* backend None at once; else the Hamiltonian of self.qubo_matrix goes to the
\* estimator and the call waits in job.result()
SH_hardware_optimization ==
    /\ pc = "program"
    /\ impl = "simhw"
    /\ UNCHANGED << estimator_vars, decode_vars, web_vars >>
    /\ UNCHANGED << rebuild_vars, compare_vars >>
    /\ IF ~backend
       THEN /\ result' = None
            /\ pc' = "solved"
            /\ UNCHANGED handed
       ELSE /\ handed' = SH_qubo_to_pauli_operator(qubo_matrix)
            /\ result' = result
            /\ pc' = "hw_job"
    /\ cause' = "none"
    /\ UNCHANGED << impl, B, data, mu, sigma, risk_aversion, penalty_strength,
                    qubo_matrix, program, backend, report, err >>

\* the backend answers the jobs (job.result() is called without a timeout)
\* and hardware_optimization goes on to its return
SH_job_result ==
    /\ pc = "hw_job"
    /\ pc' = "solved"
    /\ UNCHANGED << estimator_vars, decode_vars, web_vars >>
    /\ UNCHANGED << rebuild_vars, compare_vars >>
    /\ \E o \in HardwareOutcomes :
       /\ result' = o[1]
       /\ cause' = o[2]
    /\ UNCHANGED << impl, B, data, mu, sigma, risk_aversion, penalty_strength,
                    qubo_matrix, program, backend, handed, report, err >>

\* analyze_solution(result); in run_optimization its value is unpacked into
\* four names, which raises ValueError on the three-tuple
analyze_solution ==
    /\ pc = "solved"
    /\ UNCHANGED << estimator_vars, decode_vars, web_vars >>
    /\ UNCHANGED << cause, rebuild_vars, compare_vars >>
    /\ impl \in {"realtime", "mag7", "simhw"}
    /\ report' =
         CASE impl = "realtime" -> RT_analyze_solution(result)
           [] impl = "mag7"     -> M7_analyze_solution(result)
           [] impl = "simhw"    -> SH_analyze_solution(result)
    /\ IF report'.tag = "raise"
       THEN pc' = "failed" /\ err' = report'.exc
       ELSE IF report'.tag = "tuple3"
       THEN pc' = "failed" /\ err' = "ValueError"
       ELSE pc' = "analyzed" /\ err' = err
    /\ UNCHANGED << impl, B, data, mu, sigma, risk_aversion, penalty_strength,
                    qubo_matrix, program, backend, handed, result >>

\* the bit vectors of a length other than n that a caller may put in a result
OtherLengthVecs == UNION { BinVecs(k) : k \in {0, n - 1, n + 1} }

\* a call of analyze_solution(result) on the built optimizer with a result
\* object whose x has another length than self.n
analyze_solution_other_length ==
    /\ pc = "program"
    /\ impl \in {"realtime", "mag7", "simhw"}
    /\ UNCHANGED << estimator_vars, decode_vars, web_vars >>
    /\ UNCHANGED << cause, rebuild_vars, compare_vars >>
    /\ \E x \in OtherLengthVecs : result' = Result(x, 0)
    /\ report' =
         CASE impl = "realtime" -> RT_analyze_solution(result')
           [] impl = "mag7"     -> M7_analyze_solution(result')
           [] impl = "simhw"    -> SH_analyze_solution(result')
    /\ IF report'.tag = "raise"
       THEN pc' = "failed" /\ err' = report'.exc
       ELSE pc' = "returned" /\ err' = err
    /\ UNCHANGED << impl, B, data, mu, sigma, risk_aversion, penalty_strength,
                    qubo_matrix, program, backend, handed >>

\* the matrix a call of build_qubo_matrix with the expected returns m (and
\* the object's sigma, q, lambda and B) returns
BuiltFrom(m) ==
    CASE impl = "realtime" -> RT_build_qubo_matrix(m, sigma)
      [] impl = "mag7"     -> M7_build_qubo_matrix(m, sigma, risk_aversion,
                                                   penalty_strength, B)
      [] impl = "simhw"    -> SH_build_qubo_matrix(m, sigma, risk_aversion,
                                                   penalty_strength, B)
      [] impl = "yfinance" -> YF_build_qubo_matrix(m, sigma, risk_aversion,
                                                   penalty_strength, B)

\* where a call leaves its matrix: qaoa.py and qaoa_mag7.py bind
\* self.qubo_matrix to a fresh array, simulator_vs_hardware.py fills a local
\* array, yfinance_extraction.py writes into the array self.qubo_matrix is
\* bound to and returns that same array
FieldAfterBuild(new) == IF impl = "simhw" THEN qubo_matrix ELSE new
KeptAfterBuild(old, new) == IF impl = "yfinance" THEN new ELSE old

\* the caller keeps the matrix of the first call and calls build_qubo_matrix
\* again with other expected returns
build_qubo_matrix_other_inputs ==
    /\ pc = "qubo"
    /\ pc' = "rebuilt"
    /\ UNCHANGED << estimator_vars, decode_vars, web_vars >>
    /\ UNCHANGED << cause, compare_vars >>
    /\ \E m \in MuSet \ { mu } :
       LET new == BuiltFrom(m)
       IN  /\ kept_value' = qubo_matrix
           /\ kept' = KeptAfterBuild(qubo_matrix, new)
           /\ qubo_matrix' = FieldAfterBuild(new)
           /\ rebuilt' = << new >>
    /\ UNCHANGED << impl, B, data, mu, sigma, risk_aversion, penalty_strength,
                    program, backend, handed, result, report, err >>

\* ... and then once more with the inputs of the first call
build_qubo_matrix_same_inputs ==
    /\ pc = "rebuilt"
    /\ pc' = "rebuilt_same"
    /\ UNCHANGED << estimator_vars, decode_vars, web_vars >>
    /\ UNCHANGED << cause, compare_vars >>
    /\ LET new == BuiltFrom(mu)
       IN  /\ kept' = KeptAfterBuild(kept, new)
           /\ qubo_matrix' = FieldAfterBuild(new)
           /\ rebuilt' = Append(rebuilt, new)
    /\ UNCHANGED << impl, B, data, mu, sigma, risk_aversion, penalty_strength,
                    program, backend, handed, result, report, err, kept_value >>

\* mutant of ResultsEntry: success looks at the solver's result alone
ResultsEntry_result_only(res, rep) ==
    [report |-> rep, success |-> res # None]

\* one entry of the dictionary of compare_optimizations: the four values
\* analyze_solution returned (kept together as the value rep) and
\* 'success': result is not None and assets is not None.  execution_time, a
\* wall-clock reading, is left out.
ResultsEntry(res, rep) ==
    [report |-> rep, success |-> res # None /\ rep.tag = "tuple4"]

\* the number under the square root of a reported risk (0.0 for no asset)
Radicand(r) == IF r.tag = "sqrt" THEN r.arg ELSE r.val * r.val

\* abs(risk1 - risk2): zero exactly when both roots have the same radicand
RiskDifference(r1, r2) ==
    IF Radicand(r1) = Radicand(r2) THEN Number(0)
    ELSE [tag |-> "abs_difference", of |-> << r1, r2 >>]

\* mutant of SH_comparison: the selections match when they have the same size
SH_comparison_match_by_count(sim, hw) ==
    [selection_match      |-> Len(sim.report.selected_assets) = Len(hw.report.selected_assets),
     return_difference    |-> Abs(sim.report.portfolio_return - hw.report.portfolio_return),
     risk_difference      |-> RiskDifference(sim.report.portfolio_risk, hw.report.portfolio_risk),
     objective_difference |-> Abs(sim.report.fval - hw.report.fval)]

\* the COMPARISON ANALYSIS lines of display_comparison
SH_comparison(sim, hw) ==
    [selection_match      |-> sim.report.selected_assets = hw.report.selected_assets,
     return_difference    |-> Abs(sim.report.portfolio_return - hw.report.portfolio_return),
     risk_difference      |-> RiskDifference(sim.report.portfolio_risk, hw.report.portfolio_risk),
     objective_difference |-> Abs(sim.report.fval - hw.report.fval)]

\* simulator_vs_hardware.Magnificent_7.compare_optimizations, a run in which
\* the backend answers: simulator_optimization, its analysis,
\* hardware_optimization, its analysis, and the dictionary of both entries
SH_compare_optimizations ==
    /\ pc = "program"
    /\ impl = "simhw"
    /\ pc' = "compared"
    /\ \E s \in SolverResults(program) \cup { None },
          o \in IF backend THEN HardwareOutcomes ELSE { << None, "none" >> } :
       /\ sim_result' = s
       /\ hw_result' = o[1]
       /\ cause' = o[2]
       /\ results' = [simulator |-> ResultsEntry(s, SH_analyze_solution(s)),
                      hardware  |-> ResultsEntry(o[1], SH_analyze_solution(o[1]))]
       /\ result' = o[1]
       /\ report' = SH_analyze_solution(o[1])
    /\ handed' = IF backend THEN SH_qubo_to_pauli_operator(qubo_matrix) ELSE program
    /\ UNCHANGED << estimator_vars, decode_vars, web_vars >>
    /\ UNCHANGED << impl, B, data, mu, sigma, risk_aversion, penalty_strength,
                    qubo_matrix, program, backend, err, rebuild_vars, comparison >>

\* simulator_vs_hardware.Magnificent_7.display_comparison(results): the
\* comparison is printed only when both entries are successful
SH_display_comparison ==
    /\ pc = "compared"
    /\ pc' = "displayed"
    /\ comparison' = IF results.simulator.success /\ results.hardware.success
                     THEN SH_comparison(results.simulator, results.hardware)
                     ELSE None
    /\ UNCHANGED << estimator_vars, decode_vars, web_vars >>
    /\ UNCHANGED << impl, B, data, mu, sigma, risk_aversion, penalty_strength,
                    qubo_matrix, program, backend, handed, result, report, err,
                    cause, rebuild_vars, sim_result, hw_result, results >>

Next ==
    \/ RT_init
    \/ M7_init
    \/ SH_init
    \/ YF_init
    \/ compute_statistics
    \/ SH_init_statistics
    \/ YF_choose_parameters
    \/ build_qubo_matrix
    \/ build_qubo_matrix_other_inputs
    \/ build_qubo_matrix_same_inputs
    \/ build_quadratic_program
    \/ quantum_optimizer
    \/ quantum_optimizer_raises
    \/ YF_quantum_simulator
    \/ YF_quantum_simulator_raises
    \/ SH_simulator_optimization
    \/ SH_hardware_optimization
    \/ SH_job_result
    \/ analyze_solution
    \/ analyze_solution_other_length
    \/ SH_compare_optimizations
    \/ SH_display_comparison

Spec == Init /\ [][Next]_vars

\* the steps the program itself takes; the answer of the backend to a
\* submitted job (SH_job_result) is not one of them
ProgramStep ==
    \/ RT_init
    \/ M7_init
    \/ SH_init
    \/ YF_init
    \/ compute_statistics
    \/ SH_init_statistics
    \/ YF_choose_parameters
    \/ build_qubo_matrix
    \/ build_qubo_matrix_other_inputs
    \/ build_qubo_matrix_same_inputs
    \/ build_quadratic_program
    \/ quantum_optimizer
    \/ quantum_optimizer_raises
    \/ YF_quantum_simulator
    \/ YF_quantum_simulator_raises
    \/ SH_simulator_optimization
    \/ SH_hardware_optimization
    \/ analyze_solution
    \/ analyze_solution_other_length
    \/ SH_compare_optimizations
    \/ SH_display_comparison

\* ===================================================== properties
\* positions at which self.qubo_matrix / the program have been built
QuboBuilt    == pc \in {"qubo", "program", "solved", "analyzed"}
ProgramBuilt == pc \in {"program", "solved", "analyzed"}

\* number of ones of a bit vector
Ones(x) == SumSeq(x)

\* C1: with a budget in 1..N and a symmetric sigma, the matrix returned by
\* build_qubo_matrix has Q[i][i] = q*sigma[i][i] - mu[i] + lambda*(1 - 2B) on
\* the diagonal and Q[i][j] = q*sigma[i][j] + 2*lambda off it, in every entry.
C1_QuboEntries ==
    (QuboBuilt /\ ValidBudget(B)) =>
        \A i, j \in Idx :
            qubo_matrix[i][j] =
                IF i = j
                THEN risk_aversion * sigma[i][i] - mu[i] + penalty_strength * (1 - 2 * B)
                ELSE risk_aversion * sigma[i][j] + 2 * penalty_strength

C1_Witness ==
    /\ pc = "qubo"
    /\ impl = "realtime"
    /\ B = n
    /\ \E i, j \in Idx : i # j /\ sigma[i][j] # 0 /\ sigma[i][i] # 0

\* C2: the matrix returned by build_qubo_matrix is symmetric,
\* Q[i][j] = Q[j][i] for every pair i, j.
C2_QuboSymmetric ==
    (QuboBuilt /\ ValidBudget(B)) =>
        \A i, j \in Idx : qubo_matrix[i][j] = qubo_matrix[j][i]

C2_Witness ==
    /\ pc = "qubo"
    /\ impl \in {"mag7", "yfinance"}
    /\ ValidBudget(B)
    /\ \E i, j \in Idx : i # j /\ qubo_matrix[i][j] # 0
                               /\ qubo_matrix[i][i] # qubo_matrix[j][j]

\* sum of f over the finite set S of its domain
RECURSIVE SumOver(_, _)
SumOver(f, S) ==
    IF S = {} THEN 0
    ELSE LET p == CHOOSE r \in S : TRUE IN f[p] + SumOver(f, S \ {p})

\* x^T Q x
xTQx(Q, x) ==
    SumOver([p \in Idx \X Idx |-> Q[p[1]][p[2]] * PyAt(x, p[1]) * PyAt(x, p[2])],
            Idx \X Idx)

\* sum_i Q[i][i] x[i] + sum_{i<j} Q[i][j] x[i] x[j]: each pair once
UpperOnce(Q, x) ==
    SumUpTo([i \in Idx |-> Q[i][i] * PyAt(x, i)], n)
    + SumOver([p \in UpperPairs |-> Q[p[1]][p[2]] * PyAt(x, p[1]) * PyAt(x, p[2])],
              UpperPairs)

\* the lambda-free coefficients of either objective sum to at most Scale in
\* absolute value, so the lambda-free part of the objective varies by at most
\* Scale between two bit vectors
Scale ==
    SumUpTo([i \in Idx |-> Abs(risk_aversion * sigma[i][i] - mu[i])], n)
    + SumOver([p \in UpperPairs |-> 2 * risk_aversion * Abs(sigma[p[1]][p[2]])],
              UpperPairs)

LambdaSufficient == penalty_strength > Scale

IsMinimiser(x) ==
    \A y \in BinVecs(n) : Objective(program, x) <= Objective(program, y)

\* C3: without the explicit constraint and with lambda large against mu and
\* sigma, every minimiser of the assembled objective over all 2^N bit vectors
\* has exactly B ones, so the minimum is the minimum over the B-ones vectors.
C3_PenaltyFolded ==
    (ProgramBuilt /\ ValidBudget(B) /\ LambdaSufficient) =>
        /\ \A x \in BinVecs(n) : IsMinimiser(x) => Ones(x) = B
        /\ \E x \in BinVecs(n) : IsMinimiser(x) /\ Ones(x) = B

\* C3, the part that holds: the builders that take the upper triangle once
\* (qaoa.py, qaoa_mag7.py, simulator_vs_hardware.py) do fold the constraint
C3_HoldsWithoutDoubling ==
    (ProgramBuilt /\ ValidBudget(B) /\ LambdaSufficient /\ impl # "yfinance") =>
        \A x \in BinVecs(n) : IsMinimiser(x) => Ones(x) = B

\* C4 as claimed: the objective assembled by every program builder equals
\* x^T Q x for every bit vector x.
C4_ObjectiveIsxTQx ==
    ProgramBuilt =>
        \A x \in BinVecs(n) : Objective(program, x) = xTQx(qubo_matrix, x)

\* C4 as amended: minimize_qubo of yfinance_extraction doubles the upper
\* triangle and its objective is x^T Q x; the build_quadratic_program of
\* qaoa.py, qaoa_mag7.py and simulator_vs_hardware.py take the upper triangle
\* as it is and their objective is sum_i Q[i][i] x[i] + sum_{i<j} Q[i][j] x[i] x[j].
C4_ObjectivePerBuilder ==
    ProgramBuilt =>
        \A x \in BinVecs(n) :
            Objective(program, x) =
                IF impl = "yfinance" THEN xTQx(qubo_matrix, x)
                                     ELSE UpperOnce(qubo_matrix, x)

C4_Witness ==
    /\ pc = "program"
    /\ impl = "realtime"
    /\ DOMAIN program.quadratic # {}
    /\ \E x \in BinVecs(n) : Objective(program, x) # xTQx(qubo_matrix, x)

\* the explicit constraints that travel with a problem handed to a solver
CarriedConstraints(h) ==
    IF h.kind = "QuadraticProgram" THEN h.constraints ELSE << >>

IsCardinalityConstraint(c) ==
    /\ c.linear = [i \in Idx |-> 1]
    /\ c.sense = "=="
    /\ c.rhs = B

\* C5 as claimed: every problem handed to a solver carries exactly one linear
\* equality, coefficient 1 on each variable, right-hand side self.B.
C5_EveryHandedProblemConstrained ==
    (handed # None) =>
        /\ Len(CarriedConstraints(handed)) = 1
        /\ IsCardinalityConstraint(CarriedConstraints(handed)[1])

\* C5 as amended: every QuadraticProgram handed to MinimumEigenOptimizer
\* carries that one equality; hardware_optimization hands over the
\* Hamiltonian of self.qubo_matrix, which carries no explicit constraint.
C5_ProgramsConstrained ==
    (handed # None) =>
        IF handed.kind = "QuadraticProgram"
        THEN /\ Len(handed.constraints) = 1
             /\ IsCardinalityConstraint(handed.constraints[1])
        ELSE /\ impl = "simhw" /\ backend
             /\ handed.kind = "SparsePauliOp"
             /\ CarriedConstraints(handed) = << >>

C5_Witness ==
    /\ pc = "solved"
    /\ impl = "simhw"
    /\ handed # None
    /\ handed.kind = "QuadraticProgram"
    /\ result # None

\* C6: a budget outside 1..N makes the constructor fail at once with a
\* validation error, before data is loaded; no object with such a budget
\* exists, let alone reaches QUBO construction.
C6_InvalidBudgetRejected ==
    (pc # "new") =>
        IF data = "none" THEN pc = "failed" /\ err = "ValueError"
                         ELSE ValidBudget(B)

\* C7: for every solution x of length N the analysis returns a report that
\* carries a constraint-satisfied field equal to (number of ones of x = B).
C7_ConstraintFieldReported ==
    (pc = "analyzed" /\ impl = "simhw" /\ result # None) =>
        /\ report.tag = "tuple4"
        /\ "constraint_satisfied" \in DOMAIN report
        /\ report.constraint_satisfied = (Ones(result.x) = B)

\* C8: the realized return reported by analyze_solution is the sum of mu[i]
\* over exactly the indices with x[i] = 1, and 0 when there is none.
C8_RealizedReturn ==
    (pc = "analyzed" /\ report.tag = "tuple4") =>
        report.portfolio_return =
            SumUpTo([i \in Idx |-> IF PyAt(result.x, i) = 1 THEN mu[i] ELSE 0], n)

C8_Witness ==
    /\ pc = "analyzed"
    /\ impl = "realtime"
    /\ report.tag = "tuple4"
    /\ Ones(result.x) = 1
    /\ \E i \in Idx : PyAt(result.x, i) = 0 /\ mu[i] # 0

\* the full double sum of sigma over the ordered pairs of selected indices
DoubleSum(x) ==
    SumOver([p \in Idx \X Idx |-> sigma[p[1]][p[2]] * PyAt(x, p[1]) * PyAt(x, p[2])],
            Idx \X Idx)

\* C9: in every analyzer the variance under the square root is the full
\* double sum of sigma over the selected indices (the clamped double sum in
\* simulator_vs_hardware.py).
C9_FullDoubleSum ==
    (pc = "analyzed" /\ report.tag = "tuple4" /\ report.portfolio_risk.tag = "sqrt") =>
        report.portfolio_risk.arg =
            IF impl = "simhw" THEN Max(0, DoubleSum(result.x))
                              ELSE DoubleSum(result.x)

\* C10: in every analyzer the value passed to the square root is never
\* negative.
C10_SqrtArgumentNonNegative ==
    (pc = "analyzed" /\ report.tag = "tuple4" /\ report.portfolio_risk.tag = "sqrt") =>
        report.portfolio_risk.arg >= 0

\* C11: when the solver result carries no solution vector, analyze_solution
\* does not raise and the run_optimization that consumes its value completes
\* with a report, instead of raising.
C11_NoSolutionReported ==
    (impl \in {"realtime", "mag7"} /\ result # None /\ result.x_none /\ report # None) =>
        /\ pc = "analyzed"
        /\ err = "none"

\* what analyze_solution returns for a result without a solution vector
NoSolutionOutcome ==
    CASE impl = "realtime" -> RT_analyze_solution(ResultXNone)
      [] impl = "mag7"     -> M7_analyze_solution(ResultXNone)
      [] impl = "simhw"    -> SH_analyze_solution(None)

\* C12: analysing a solution vector whose length differs from N ends in a
\* failure that differs from the 'no solution' outcome, and never in a normal
\* report computed from part of the vector.
C12_LengthMismatchFails ==
    (pc \in {"returned", "failed"} /\ result # None /\ ~result.x_none
        /\ Len(result.x) # n /\ report # None) =>
        /\ report.tag # "tuple4"
        /\ report # NoSolutionOutcome

\* the assets of the subset x is the indicator vector of
SubsetOf(x) == { i \in Idx : PyAt(x, i) = 1 }

\* position of a ticker in the universe
UniverseIndex(t) == CHOOSE k \in 1 .. Len(tickers) : tickers[k] = t

\* C13: analysing the indicator vector of a subset S of the universe reports
\* as selected assets exactly the identifiers of S, each once, in universe
\* order.
C13_DecodeRoundTrip ==
    (pc = "analyzed" /\ report.tag = "tuple4") =>
        LET sa == report.selected_assets
            S  == SubsetOf(result.x)
        IN  /\ Len(sa) = Cardinality(S)
            /\ { sa[k] : k \in 1 .. Len(sa) } = { tickers[i + 1] : i \in S }
            /\ \A k, l \in 1 .. Len(sa) :
                   k < l => UniverseIndex(sa[k]) < UniverseIndex(sa[l])

C13_Witness ==
    /\ pc = "analyzed"
    /\ impl = "simhw"
    /\ report.tag = "tuple4"
    /\ PyAt(result.x, 0) = 0
    /\ Len(report.selected_assets) = n - 1

\* the bit vector with a single 1, at index i
OneHot(i) == [k \in 1 .. n |-> IF k = i + 1 THEN 1 ELSE 0]

\* mu[i] - q*sigma[i][i]
Score(i) == mu[i] - risk_aversion * sigma[i][i]

\* C14: with B = 1 the minimum of the built program over the vectors with
\* exactly one 1 is attained at the assets with the highest
\* mu[i] - q*sigma[i][i], and only there.
C14_SingleAssetSelection ==
    (ProgramBuilt /\ B = 1) =>
        \A i \in Idx :
            (\A j \in Idx : Objective(program, OneHot(i)) <= Objective(program, OneHot(j)))
            <=> (\A j \in Idx : Score(i) >= Score(j))

C14_Witness ==
    /\ pc = "program"
    /\ impl = "yfinance"
    /\ B = 1
    /\ \E i, j \in Idx : mu[i] > mu[j] /\ Score(i) < Score(j)

C16_BuildHasNoSideEffects ==
    (pc = "rebuilt") =>
        /\ qubo_matrix = kept_value
        /\ kept = kept_value

\* C17: when the backend solver fails inside a solve call, the call ends with
\* an error raised to its caller; it does not return a value in its place.
C17_SolverFailureSignalled ==
    (cause # "none") => (pc = "failed" /\ err # "none")

\* a solve call has handed its problem to the external solver and has not
\* returned yet
InSolveCall == pc = "hw_job"

\* C18: every call to an external solver returns control to its caller also
\* when the backend job never answers: while the call waits, the program has
\* a step of its own (an iteration cap or a timeout running out) that ends
\* the wait.
C18_SolveCallBounded == InSolveCall => ENABLED ProgramStep

\* a strategy returned a result that analyze_solution can analyse
CouldBeAnalysed(res) == res # None /\ ~res.x_none /\ Len(res.x) = n

\* C19: whatever combination of the two strategies fails,
\* compare_optimizations returns (no call on the built optimizer raises) and
\* its dictionary has an entry for each strategy, whose success flag is true
\* exactly when that strategy returned a result that could be analysed.
C19_StrategiesIsolated ==
    /\ (impl = "simhw" /\ program # None) => pc # "failed"
    /\ (pc \in {"compared", "displayed"}) =>
           /\ DOMAIN results = {"simulator", "hardware"}
           /\ results.simulator.success = CouldBeAnalysed(sim_result)
           /\ results.hardware.success = CouldBeAnalysed(hw_result)

C19_Witness ==
    /\ pc = "compared"
    /\ sim_result = None
    /\ CouldBeAnalysed(hw_result)
    /\ ~results.simulator.success
    /\ results.hardware.success

\* the set of assets a report selects
AssetSet(rep) == { rep.selected_assets[k] : k \in 1 .. Len(rep.selected_assets) }

\* C20: in the comparison of two successful reports the selection match is
\* true exactly when both select the same set of assets, and for two
\* identical reports the match is true and the differences of return, risk
\* and objective value are zero.
C20_ComparisonOfReports ==
    (pc = "displayed" /\ comparison # None) =>
        LET s == results.simulator.report
            h == results.hardware.report
        IN  /\ comparison.selection_match = (AssetSet(s) = AssetSet(h))
            /\ (s = h) =>
                   /\ comparison.selection_match
                   /\ comparison.return_difference = 0
                   /\ comparison.risk_difference = Number(0)
                   /\ comparison.objective_difference = 0

C20_Witness ==
    /\ pc = "displayed"
    /\ comparison # None
    /\ results.simulator.report = results.hardware.report
    /\ Len(results.simulator.report.selected_assets) >= 1
    /\ results.simulator.report.fval # 0

\* ------------------------------------------------------------------ C27
\* the matrix the builders give for lambda = 0: return and risk only
PenaltyFreeMatrix ==
    [i \in Idx |-> [j \in Idx |->
        IF i = j THEN risk_aversion * sigma[i][i] - mu[i]
        ELSE risk_aversion * sigma[i][j] ]]

\* the objective the implementation assembles from a matrix
AssembledFrom(Q) ==
    IF impl = "yfinance" THEN YF_minimize_qubo(Q) ELSE RT_build_quadratic_program(Q)

\* the lambda-dependent part of the assembled objective at x
LambdaPart(x) ==
    Objective(program, x) - Objective(AssembledFrom(PenaltyFreeMatrix), x)

Feasible == { x \in BinVecs(n) : Ones(x) = B }

ArgMin(prog, S) == { x \in S : \A y \in S : Objective(prog, x) <= Objective(prog, y) }

ZValue(b) == 1 - 2 * b

\* value (in quarters) of a Hamiltonian on the basis state encoding x, the
\* Z of string position i read on bit x[i]
HamiltonianValue(h, x) ==
    SumOver([i \in DOMAIN h.z |-> h.z[i] * ZValue(PyAt(x, i))], DOMAIN h.z)
    + SumOver([p \in DOMAIN h.zz |->
                  h.zz[p] * ZValue(PyAt(x, p[1])) * ZValue(PyAt(x, p[2]))],
              DOMAIN h.zz)
    + h.identity

\* Hamiltonian minus objective at x, in quarters
HamiltonianOffset(x) ==
    HamiltonianValue(SH_qubo_to_pauli_operator(qubo_matrix), x)
    - 4 * Objective(program, x)

\* C28: in simulator_vs_hardware.py the Hamiltonian of _qubo_to_pauli_operator
\* on the basis state of x (Z_i = 1 - 2*x[i]) differs from the objective of
\* build_quadratic_program at x by the same constant for every bit vector x.
C28_HamiltonianMatchesObjective ==
    (ProgramBuilt /\ impl = "simhw") =>
        \A x \in BinVecs(n) : \A y \in BinVecs(n) :
            HamiltonianOffset(x) = HamiltonianOffset(y)

\* ------------------------------------------------------------------ C25
\* the fields of the optimizer object that the two strategies read
strategy_inputs == << B, data, mu, sigma, risk_aversion, penalty_strength,
                      qubo_matrix, program, backend >>

\* a step of simulator_optimization, hardware_optimization or of
\* compare_optimizations, which runs the one and then the other
StrategyStep ==
    /\ impl = "simhw"
    /\ pc \in {"program", "hw_job"}
    /\ pc' \in {"solved", "hw_job", "compared"}

\* the Hamiltonian h has the coefficients of the matrix prog was built from
SameMatrix(h, prog) ==
    /\ \A i \in Idx : IF i \in DOMAIN h.z THEN h.z[i] = -2 * prog.linear[i]
                      ELSE prog.linear[i] = 0
    /\ DOMAIN h.zz = DOMAIN prog.quadratic
    /\ \A p \in DOMAIN h.zz : h.zz[p] = prog.quadratic[p]

PhysicalQubits == n + 1
CountVals      == 0 .. 2      \* counts of a bitstring
MaxEntries     == 2           \* entries of a count table

\* the keys of get_counts(): one character per physical qubit, the
\* rightmost character is the qubit of index 0
RECURSIVE BitStrings(_)
BitStrings(k) == IF k = 0 THEN { << >> }
                 ELSE { Append(s, c) : s \in BitStrings(k - 1), c \in {"0", "1"} }

\* count tables in iteration order: no bitstring twice
CountTables ==
    { t \in UNION { [1 .. k -> [bitstring : BitStrings(PhysicalQubits), count : CountVals]]
                    : k \in 0 .. MaxEntries } :
        \A a \in DOMAIN t : \A b \in DOMAIN t : a # b => t[a].bitstring # t[b].bitstring }

\* circuit.layout: None, or the physical qubit of each logical qubit it maps
Layout(f) == [tag |-> "layout", virtual_bits |-> f]
Layouts ==
    { None } \cup
    { Layout(f) : f \in { g \in UNION { [D -> 0 .. (PhysicalQubits - 1)] : D \in SUBSET Idx } :
                            \A a \in DOMAIN g : \A b \in DOMAIN g : a # b => g[a] # g[b] } }

\* int(bit_value)
IntOfBit(c) == IF c = "1" THEN 1 ELSE 0

\* reversed(best_bitstring), best_bitstring[::-1]
Reversed(s) == [k \in 1 .. Len(s) |-> s[Len(s) + 1 - k]]

Str(s) == [tag |-> "str", chars |-> s]

\* mutant of MostFrequent: a bitstring replaces the best one when its count
\* is at least as large
RECURSIVE MostFrequent_at_least(_, _, _)
MostFrequent_at_least(cs, max_count, best_bitstring) ==
    IF cs = << >> THEN best_bitstring
    ELSE IF Head(cs).count >= max_count
         THEN MostFrequent_at_least(Tail(cs), Head(cs).count, Str(Head(cs).bitstring))
         ELSE MostFrequent_at_least(Tail(cs), max_count, best_bitstring)

\* the loop of lines 507-513 over counts.items(), from max_count and
\* best_bitstring on
RECURSIVE MostFrequent(_, _, _)
MostFrequent(cs, max_count, best_bitstring) ==
    IF cs = << >> THEN best_bitstring
    ELSE IF Head(cs).count > max_count
         THEN MostFrequent(Tail(cs), Head(cs).count, Str(Head(cs).bitstring))
         ELSE MostFrequent(Tail(cs), max_count, best_bitstring)

\* physical_to_logical of lines 523-526
physical_to_logical(layout_) ==
    LET vb == layout_.virtual_bits
        kept_ == { l \in DOMAIN vb : l < n }
    IN  [ph \in { vb[l] : l \in kept_ } |-> CHOOSE l \in kept_ : vb[l] = ph]

\* x_opt of lines 521-536 for a best bitstring
ExtractBits(chars, layout_) ==
    LET rev == Reversed(chars)
    IN  IF layout_ # None
        THEN LET p2l == physical_to_logical(layout_)
             IN  [k \in 1 .. n |->
                    IF \E ph \in 0 .. (Len(rev) - 1) : ph \in DOMAIN p2l /\ p2l[ph] = k - 1
                    THEN IntOfBit(rev[(CHOOSE ph \in 0 .. (Len(rev) - 1) :
                                          ph \in DOMAIN p2l /\ p2l[ph] = k - 1) + 1])
                    ELSE 0]
        ELSE [k \in 1 .. Min(n, Len(rev)) |-> IntOfBit(rev[k])]

\* Magnificent_7._process_qaoa_counts(counts, objective_value, circuit), the
\* second definition of the class (lines 504-546), which is the one in force
SH_process_qaoa_counts(counts_, objective_value, layout_) ==
    LET best_bitstring == MostFrequent(counts_, 0, None)
    IN  IF best_bitstring.tag = "None" \/ Len(best_bitstring.chars) = 0
        THEN None
        ELSE Result(ExtractBits(best_bitstring.chars, layout_), objective_value)

\* hardware_optimization has sampled the final circuit
DecodeInit ==
    /\ impl = "simhw"
    /\ pc = "hw_sampling"
    /\ ObjectIdle
    /\ EstimatorIdle
    /\ DecodeIdle
    /\ WebIdle

\* lines 355-357: the sampler job answers with a count table; the transpiled
\* circuit has a layout or none
SH_sampler_result ==
    /\ pc = "hw_sampling"
    /\ pc' = "hw_counts"
    /\ counts' \in CountTables
    /\ layout' \in Layouts
    /\ UNCHANGED << impl, B, data, mu, sigma, risk_aversion, penalty_strength,
                    qubo_matrix, program, backend, handed, result, report, err,
                    cause, rebuild_vars, compare_vars, estimator_vars, decoded,
                    web_vars >>

\* line 360: the call of _process_qaoa_counts
SH_decode_counts ==
    /\ pc = "hw_counts"
    /\ pc' = "hw_decoded"
    /\ \E f \in FunVals : decoded' = SH_process_qaoa_counts(counts, f, layout)
    /\ UNCHANGED << impl, B, data, mu, sigma, risk_aversion, penalty_strength,
                    qubo_matrix, program, backend, handed, result, report, err,
                    cause, rebuild_vars, compare_vars, estimator_vars, counts,
                    layout, web_vars >>

DecodeNext ==
    \/ SH_sampler_result
    \/ SH_decode_counts

DecodeSpec == DecodeInit /\ [][DecodeNext]_vars


\* ------------------------------------------------------------------ C29
\* the largest count of a table
MaxCount(cs) == CHOOSE m \in { cs[k].count : k \in DOMAIN cs } :
                    \A k \in DOMAIN cs : cs[k].count <= m

\* the first entry, in iteration order, that has the largest count
FirstMaxIndex(cs) ==
    CHOOSE k \in DOMAIN cs :
        /\ cs[k].count = MaxCount(cs)
        /\ \A j \in DOMAIN cs : j < k => cs[j].count < MaxCount(cs)

NoPositiveCount(cs) == \A k \in DOMAIN cs : cs[k].count <= 0

\* C29: _process_qaoa_counts returns None exactly when the table is empty or
\* has no positive count; otherwise it returns the decoding of the first
\* bitstring, in iteration order, whose count is the maximum of the table.
C29_DecodesFirstMaximum ==
    pc = "hw_decoded" =>
        /\ (decoded = None) <=> NoPositiveCount(counts)
        /\ decoded # None =>
              decoded.x = ExtractBits(counts[FirstMaxIndex(counts)].bitstring, layout)

\* two bitstrings tie on a positive count and decode to different vectors;
\* the first one is returned
C29_Witness ==
    /\ pc = "hw_decoded"
    /\ Len(counts) = 2
    /\ counts[1].count = counts[2].count /\ counts[1].count > 0
    /\ decoded # None
    /\ decoded.x = ExtractBits(counts[1].bitstring, layout)
    /\ decoded.x # ExtractBits(counts[2].bitstring, layout)


\* ------------------------------------------------------------------ C26
\* the Pauli label _qubo_to_pauli_operator writes for the linear term of
\* asset i (line 485): 'I' * i + 'Z' + 'I' * (n - i - 1)
PauliLabel(i) == [k \in 1 .. n |-> IF k = i + 1 THEN "Z" ELSE "I"]

\* the logical qubit that term acts on: SparsePauliOp.from_list reads a label
\* from the right, its last character is qubit 0
QubitOfAsset(i) == CHOOSE q \in Idx : PauliLabel(i)[n - q] = "Z"

\* the physical qubit of a logical qubit: where the layout puts it, its own
\* index where the circuit has no layout or the layout does not move it
PhysicalOf(q, layout_) ==
    IF layout_ # None /\ q \in DOMAIN layout_.virtual_bits
    THEN layout_.virtual_bits[q]
    ELSE q

\* the bit measured on a physical qubit, in a key of get_counts()
MeasuredBit(chars, ph) == IntOfBit(chars[Len(chars) - ph])

\* C26: for every non-empty count table and every layout (present, absent or
\* partial), the vector _process_qaoa_counts returns has exactly N entries,
\* each 0 or 1, and entry i is the bit measured on the qubit that carries
\* asset i.
C26_DecodedVectorOfAssets ==
    (pc = "hw_decoded" /\ decoded # None) =>
        /\ Len(decoded.x) = n
        /\ \A i \in Idx :
              /\ PyAt(decoded.x, i) \in {0, 1}
              /\ PyAt(decoded.x, i) =
                    MeasuredBit(counts[FirstMaxIndex(counts)].bitstring,
                                PhysicalOf(QubitOfAsset(i), layout))


\* ===================================================== the price data path
PriceVals == {0, 2}           \* closing prices; 0 makes the next return a division by zero
MaxLen    == 3                \* price observations per series
OldSeries == << 2, 1, 2 >>    \* the closing prices of a CSV file of an earlier fetch

Series(len) == [1 .. len -> PriceVals]
AllSeries   == UNION { Series(len) : len \in 1 .. MaxLen }

\* a CSV file: its close column and the fetch that wrote it
Csv(fetched_, close_) == [tag |-> "csv", fetched |-> fetched_, close |-> close_]

\* self.data: QAOA keeps one table per ticker, Magnificent_7 one DataFrame
\* with a column per ticker; fetched tells which fetch the prices are from
Frame(columns_, close_, fetched_) ==
    [tag |-> "frame", columns |-> columns_, close |-> close_, fetched |-> fetched_]

\* ---- floating point numbers: p/q with q >= 0; q = 0 is inf, -inf or NaN
Sign(a) == IF a > 0 THEN 1 ELSE IF a < 0 THEN -1 ELSE 0

RECURSIVE GCD(_, _)
GCD(a, b) == IF b = 0 THEN a ELSE GCD(b, a % b)

Float(p_, q_) ==
    IF q_ = 0 THEN [p |-> Sign(p_), q |-> 0]
    ELSE LET g == GCD(Abs(p_), q_) IN [p |-> p_ \div g, q |-> q_ \div g]

NaN == Float(0, 0)
IsNaN(f)    == f.q = 0 /\ f.p = 0
IsInf(f)    == f.q = 0 /\ f.p # 0
IsFinite(f) == f.q # 0

FAdd(a, b) ==
    IF IsInf(a) /\ IsInf(b) THEN (IF a.p = b.p THEN a ELSE NaN)
    ELSE Float(a.p * b.q + b.p * a.q, a.q * b.q)
FSub(a, b) == FAdd(a, [p |-> -b.p, q |-> b.q])
FMul(a, b) == Float(a.p * b.p, a.q * b.q)
\* a / k for an integer k >= 0
FDivInt(a, k) == Float(a.p, a.q * k)

RECURSIVE FSum(_)
FSum(s) == IF s = << >> THEN Float(0, 1) ELSE FAdd(Head(s), FSum(Tail(s)))

\* Series.pct_change(): NaN first, then (p[t] - p[t-1]) / p[t-1]
pct_change(prices) ==
    [t \in 1 .. Len(prices) |->
        IF t = 1 THEN NaN ELSE Float(prices[t] - prices[t - 1], prices[t - 1])]

\* the rows of a list of rows that DataFrame.dropna() keeps
RECURSIVE KeptRows(_, _, _)
KeptRows(cols, at_, t) ==
    IF t = 0 THEN << >>
    ELSE LET before == KeptRows(cols, at_, t - 1)
         IN  IF \E c \in cols : IsNaN(at_[c][t]) THEN before ELSE Append(before, t)

\* a T x |columns| matrix of floats, kept by column
Matrix(columns_, rows_, at_) ==
    [tag |-> "matrix", columns |-> columns_, rows |-> rows_, at |-> at_]

\* mutant of np_array: the rows are cut to the shortest one
np_array_truncating(cols, all_returns) ==
    LET T == CHOOSE m \in { Len(all_returns[c]) : c \in cols } :
                 \A c \in cols : m <= Len(all_returns[c])
    IN  Matrix(cols, T, [c \in cols |-> SubSeq(all_returns[c], 1, T)])

\* np.array(all_returns).T: rows of different lengths are an inhomogeneous
\* shape, for which np.array raises ValueError
np_array(cols, all_returns) ==
    IF \E c \in cols : \E d \in cols : Len(all_returns[c]) # Len(all_returns[d])
    THEN Raised("ValueError")
    ELSE Matrix(cols, Len(all_returns[CHOOSE c \in cols : TRUE]), all_returns)

\* QAOA.compute_returns: pct_change().iloc[1:] of each close column
RT_compute_returns(frame_) ==
    np_array(frame_.columns, [c \in frame_.columns |-> Tail(pct_change(frame_.close[c]))])

\* self.data.pct_change().dropna() of the Magnificent_7 classes
ReturnsFrame(frame_) ==
    LET pct  == [c \in frame_.columns |-> pct_change(frame_.close[c])]
        T    == Len(frame_.close[CHOOSE c \in frame_.columns : TRUE])
        keep == KeptRows(frame_.columns, pct, T)
    IN  Matrix(frame_.columns, Len(keep),
               [c \in frame_.columns |-> [k \in 1 .. Len(keep) |-> pct[c][keep[k]]]])

\* qaoa_mag7.Magnificent_7.compute_returns: fails on an empty returns frame
M7_compute_returns(frame_) ==
    IF ReturnsFrame(frame_).rows = 0 THEN Raised("ValueError") ELSE ReturnsFrame(frame_)

\* simulator_vs_hardware.Magnificent_7.compute_returns: fails under 2 rows
SH_compute_returns(frame_) ==
    IF ReturnsFrame(frame_).rows < 2 THEN Raised("ValueError") ELSE ReturnsFrame(frame_)

\* np.mean(returns_matrix, axis=0)
np_mean(m) == [c \in m.columns |-> FDivInt(FSum(m.at[c]), m.rows)]

\* np.cov(returns_matrix.T): centred products over max(T - 1, 0)
np_cov(m) ==
    LET avg == np_mean(m)
        X   == [c \in m.columns |-> [t \in 1 .. m.rows |-> FSub(m.at[c][t], avg[c])]]
    IN  [c \in m.columns |-> [d \in m.columns |->
            FDivInt(FSum([t \in 1 .. m.rows |-> FMul(X[c][t], X[d][t])]),
                    Max(m.rows - 1, 0))]]


\* main.py has not run yet; the Data folder holds the CSV files an earlier
\* fetch left there, or none
EstimatorInit ==
    /\ impl = "none"
    /\ pc = "new"
    /\ ObjectIdle
    /\ files \in [Idx -> {None, Csv("earlier", OldSeries)}]
    /\ frame = None
    /\ returns_matrix = None
    /\ DecodeIdle
    /\ WebIdle

object_vars == << B, data, mu, sigma, risk_aversion, penalty_strength, qubo_matrix,
                  program, backend, handed, result, report, err, cause,
                  rebuild_vars, compare_vars >>

\* DataExtraction.fetch_data (main.py lines 6-7): a ticker for which the
\* provider has no "Time Series (Daily)" is skipped, the others' CSV files
\* are written
DataExtraction_fetch_data ==
    /\ pc = "new"
    /\ pc' = "fetched"
    /\ impl' = "realtime"
    /\ \E df \in [Idx -> {None} \cup { Csv("now", s) : s \in AllSeries }] :
          files' = [i \in Idx |-> IF df[i] = None THEN files[i] ELSE df[i]]
    /\ UNCHANGED << object_vars, frame, returns_matrix, decode_vars, web_vars >>

\* QAOA.__init__(B) with a budget in range, ending in download_data:
\* pd.read_csv raises FileNotFoundError for a ticker without a file
RT_download_data ==
    /\ pc = "fetched"
    /\ impl = "realtime"
    /\ \E b \in 1 .. n : B' = b
    /\ IF \E i \in Idx : files[i] = None
       THEN /\ pc' = "failed"
            /\ err' = "FileNotFoundError"
            /\ UNCHANGED << data, frame >>
       ELSE /\ pc' = "loaded"
            /\ data' = "loaded"
            /\ frame' = Frame(Idx, [i \in Idx |-> files[i].close],
                              [i \in Idx |-> files[i].fetched])
            /\ err' = "none"
    /\ UNCHANGED << impl, mu, sigma, risk_aversion, penalty_strength, qubo_matrix,
                    program, backend, handed, result, report, cause, rebuild_vars,
                    compare_vars, files, returns_matrix, decode_vars, web_vars >>

\* the DataFrames yf.download(...)['Close'] may return: a column per ticker
\* it has prices for, one row per trading day
DownloadedFrames(columnsets) ==
    UNION { { Frame(S, close_, [c \in S |-> "now"]) : close_ \in [S -> Series(T)] }
            : S \in columnsets, T \in 0 .. MaxLen } 

\* qaoa_mag7.Magnificent_7.__init__ with a budget in range: _download_data
\* raises ValueError on an empty frame
M7_download_data ==
    /\ pc = "new"
    /\ impl' = "mag7"
    /\ \E b \in 1 .. n : B' = b
    /\ \E f \in DownloadedFrames({Idx}) :
          IF Len(f.close[0]) = 0
          THEN /\ pc' = "failed"
               /\ err' = "ValueError"
               /\ UNCHANGED << data, frame >>
          ELSE /\ pc' = "loaded"
               /\ data' = "loaded"
               /\ frame' = f
               /\ err' = "none"
    /\ UNCHANGED << mu, sigma, risk_aversion, penalty_strength, qubo_matrix,
                    program, backend, handed, result, report, cause, rebuild_vars,
                    compare_vars, files, returns_matrix, decode_vars, web_vars >>

\* DataFrame.empty: no column or no row
FrameEmpty(f) == f.columns = {} \/ \A c \in f.columns : Len(f.close[c]) = 0

\* simulator_vs_hardware.Magnificent_7.__init__ with a budget in range, up to
\* download_data, which raises ValueError on an empty frame
SH_download_data ==
    /\ pc = "new"
    /\ impl' = "simhw"
    /\ \E b \in 1 .. n : B' = b
    /\ \E f \in DownloadedFrames(SUBSET Idx) :
          IF FrameEmpty(f)
          THEN /\ pc' = "failed"
               /\ err' = "ValueError"
               /\ UNCHANGED << data, frame >>
          ELSE /\ pc' = "downloaded"
               /\ data' = "loaded"
               /\ frame' = f
               /\ err' = "none"
    /\ UNCHANGED << mu, sigma, risk_aversion, penalty_strength, qubo_matrix,
                    program, backend, handed, result, report, cause, rebuild_vars,
                    compare_vars, files, returns_matrix, decode_vars, web_vars >>

\* simulator_vs_hardware.Magnificent_7.validate_data: with missing ticker
\* columns it raises only when fewer than B tickers are left
SH_validate_data ==
    /\ pc = "downloaded"
    /\ LET available_tickers == { t \in Idx : t \in frame.columns }
       IN  IF FrameEmpty(frame)
              \/ (available_tickers # Idx /\ Cardinality(available_tickers) < B)
           THEN pc' = "failed" /\ err' = "ValueError"
           ELSE pc' = "loaded" /\ err' = err
    /\ UNCHANGED << impl, B, data, mu, sigma, risk_aversion, penalty_strength,
                    qubo_matrix, program, backend, handed, result, report, cause,
                    rebuild_vars, compare_vars, estimator_vars, decode_vars,
                    web_vars >>

\* compute_returns() of the three classes
compute_returns ==
    /\ pc = "loaded"
    /\ LET r == CASE impl = "realtime" -> RT_compute_returns(frame)
                  [] impl = "mag7"     -> M7_compute_returns(frame)
                  [] impl = "simhw"    -> SH_compute_returns(frame)
       IN  IF r.tag = "raise"
           THEN pc' = "failed" /\ err' = r.exc /\ UNCHANGED returns_matrix
           ELSE pc' = "returns" /\ err' = err /\ returns_matrix' = r
    /\ UNCHANGED << impl, B, data, mu, sigma, risk_aversion, penalty_strength,
                    qubo_matrix, program, backend, handed, result, report, cause,
                    rebuild_vars, compare_vars, files, frame, decode_vars,
                    web_vars >>

\* compute_mu(returns_matrix); simulator_vs_hardware.py raises ValueError on
\* a NaN in the means
compute_mu ==
    /\ pc = "returns"
    /\ IF impl = "simhw" /\ \E c \in returns_matrix.columns : IsNaN(np_mean(returns_matrix)[c])
       THEN pc' = "failed" /\ err' = "ValueError" /\ UNCHANGED mu
       ELSE pc' = "mu" /\ err' = err /\ mu' = np_mean(returns_matrix)
    /\ UNCHANGED << impl, B, data, sigma, risk_aversion, penalty_strength,
                    qubo_matrix, program, backend, handed, result, report, cause,
                    rebuild_vars, compare_vars, estimator_vars, decode_vars,
                    web_vars >>

\* covariance_matrix(returns_matrix); simulator_vs_hardware.py raises
\* ValueError on a NaN in the matrix
covariance_matrix ==
    /\ pc = "mu"
    /\ IF impl = "simhw" /\ \E c \in returns_matrix.columns : \E d \in returns_matrix.columns :
                               IsNaN(np_cov(returns_matrix)[c][d])
       THEN pc' = "failed" /\ err' = "ValueError" /\ UNCHANGED sigma
       ELSE pc' = "sigma" /\ err' = err /\ sigma' = np_cov(returns_matrix)
    /\ UNCHANGED << impl, B, data, mu, risk_aversion, penalty_strength,
                    qubo_matrix, program, backend, handed, result, report, cause,
                    rebuild_vars, compare_vars, estimator_vars, decode_vars,
                    web_vars >>

\* the call of build_qubo_matrix with these statistics: it reads mu[i, 0] and
\* sigma[i, j] for every i, j below self.n, which raises IndexError when the
\* statistics have fewer columns
build_qubo_matrix_called ==
    /\ pc = "sigma"
    /\ IF returns_matrix.columns # Idx
       THEN pc' = "failed" /\ err' = "IndexError"
       ELSE pc' = "qubo_called" /\ err' = err
    /\ UNCHANGED << impl, B, data, mu, sigma, risk_aversion, penalty_strength,
                    qubo_matrix, program, backend, handed, result, report, cause,
                    rebuild_vars, compare_vars, estimator_vars, decode_vars,
                    web_vars >>

EstimatorNext ==
    \/ DataExtraction_fetch_data
    \/ RT_download_data
    \/ M7_download_data
    \/ SH_download_data
    \/ SH_validate_data
    \/ compute_returns
    \/ compute_mu
    \/ covariance_matrix
    \/ build_qubo_matrix_called

EstimatorSpec == EstimatorInit /\ [][EstimatorNext]_vars


\* ------------------------------------------------------------------ C21
\* compute_returns has returned a matrix, which the caller passes on to
\* compute_mu, covariance_matrix and build_qubo_matrix
ReturnsPassedOn == returns_matrix.tag = "matrix"

\* C21: compute_returns fails whenever the price data yields fewer than 2
\* return observations; no returns matrix with fewer than 2 rows is passed on
\* to the mean, the covariance or the QUBO computation.
C21_InsufficientDataFails ==
    ReturnsPassedOn => returns_matrix.rows >= 2


\* ------------------------------------------------------------------ C22
AllFinite ==
    /\ \A c \in returns_matrix.columns : \A t \in 1 .. returns_matrix.rows :
          IsFinite(returns_matrix.at[c][t])
    /\ \A c \in DOMAIN mu : IsFinite(mu[c])
    /\ \A c \in DOMAIN sigma : \A d \in DOMAIN sigma[c] : IsFinite(sigma[c][d])

\* C22: when build_qubo_matrix is called, every entry of the returns matrix,
\* of mu and of sigma is a finite number; a NaN or an infinity (after a
\* division by a zero price, for instance) makes the estimator fail before.
C22_NoNonFiniteReachesQubo ==
    pc = "qubo_called" => AllFinite


\* ------------------------------------------------------------------ C23
\* the run has gone past the loading and validation of the price data
Proceeded == pc \in {"loaded", "returns", "mu", "sigma", "qubo_called"}

\* C23: a run goes past loading and validation only with price data for
\* every asset of the universe, all of it from the current fetch: when the
\* provider has no series for an asset, or a ticker column is missing, the
\* run is aborted instead.
C23_MissingDataAborts ==
    Proceeded =>
        /\ frame.columns = Idx
        /\ \A c \in frame.columns : frame.fetched[c] = "now"


\* ------------------------------------------------------------------ C24
\* the loaded price series do not all have the same length
Ragged(frame_) ==
    \E c \in frame_.columns : \E d \in frame_.columns :
        Len(frame_.close[c]) # Len(frame_.close[d])

MaxJobs == 2                  \* scheduled jobs that run to their end

\* the dictionary run_optimization returns (qaoa.py lines 215-222); its mu
\* and sigma entries are not read by main.py and are left out
ResultsDict(assets_, return_, risk_, objective_) ==
    [tag |-> "results", selected_assets |-> assets_, portfolio_return |-> return_,
     portfolio_risk |-> risk_, objective_value |-> objective_]

\* the dictionaries a run may return: the one or the other asset, with one
\* or the other objective value
RunDicts ==
    { ResultsDict(<< tickers[i + 1] >>, i + 1, Sqrt(i), f) : i \in {0, 1}, f \in FunVals }

\* f"{value:.4f}"
Format4f(v) == [format |-> ".4f", number |-> v]

NoDataPage == [kind |-> "no_data"]

\* the HTML of lines 51-57, from the four values read for it
ResultPage(read) ==
    [kind |-> "result", selected_assets |-> read[1],
     portfolio_return |-> Format4f(read[2]), portfolio_risk |-> Format4f(read[3]),
     objective_value |-> Format4f(read[4])]

\* a page home() returned; started_after is a label of the model: the number
\* of jobs that had returned when the request began
Page(started_after_, body_) ==
    [tag |-> "page", started_after |-> started_after_, body |-> body_]

\* a request inside home(): the values it has read from latest_result
Request(started_after_, read_) ==
    [tag |-> "home", started_after |-> started_after_, read |-> read_]

\* latest_result[key] for the k-th key the f-string of lines 51-57 reads
ReadKey(d, k) ==
    CASE k = 1 -> d.selected_assets
      [] k = 2 -> d.portfolio_return
      [] k = 3 -> d.portfolio_risk
      [] k = 4 -> d.objective_value

\* main.py is being imported
WebInit ==
    /\ impl = "none"
    /\ pc = "importing"
    /\ ObjectIdle
    /\ EstimatorIdle
    /\ DecodeIdle
    /\ WebIdle

other_vars == << impl, object_vars, estimator_vars, decode_vars >>

\* lines 5-13: the fetch and the optimization at import raise, and the module
\* is not loaded
main_startup_raises ==
    /\ pc = "importing"
    /\ pc' = "failed"
    /\ UNCHANGED << other_vars, web_vars >>

\* lines 5-42: the optimization at import returns into the name results,
\* latest_result is {} and the scheduler is started
main_startup ==
    /\ pc = "importing"
    /\ pc' = "serving"
    /\ startup_results' \in RunDicts
    /\ latest_result' = EmptyDict
    /\ UNCHANGED << other_vars, job, request, page, completed >>

\* the scheduler calls run_qaoa_job in its thread (one instance at a time)
run_qaoa_job_called ==
    /\ pc = "serving"
    /\ job = None
    /\ Len(completed) < MaxJobs
    /\ job' = [tag |-> "running"]
    /\ UNCHANGED << pc, other_vars, latest_result, startup_results, request, page,
                    completed >>

\* QAOA(B=3) or run_optimization raises: the assignment of line 35 is not
\* reached
run_qaoa_job_raises ==
    /\ pc = "serving"
    /\ job # None
    /\ job' = None
    /\ UNCHANGED << pc, other_vars, latest_result, startup_results, request, page,
                    completed >>

\* run_optimization returns and line 35 stores its dictionary
run_qaoa_job_returns ==
    /\ pc = "serving"
    /\ job # None
    /\ job' = None
    /\ \E r \in RunDicts :
          /\ latest_result' = r
          /\ completed' = Append(completed, r)
    /\ UNCHANGED << pc, other_vars, startup_results, request, page >>

\* a request enters home(): line 48 reads latest_result
home_called ==
    /\ pc = "serving"
    /\ request = None
    /\ IF latest_result = EmptyDict
       THEN /\ page' = Page(Len(completed), NoDataPage)
            /\ UNCHANGED request
       ELSE /\ request' = Request(Len(completed), << >>)
            /\ UNCHANGED page
    /\ UNCHANGED << pc, other_vars, latest_result, startup_results, job, completed >>

\* lines 51-57: the f-string reads the global latest_result once for each of
\* its four values; after the fourth the page is returned
home_reads ==
    /\ pc = "serving"
    /\ request # None
    /\ LET read == Append(request.read, ReadKey(latest_result, Len(request.read) + 1))
       IN  IF Len(read) < 4
           THEN /\ request' = Request(request.started_after, read)
                /\ UNCHANGED page
           ELSE /\ request' = None
                /\ page' = Page(request.started_after, ResultPage(read))
    /\ UNCHANGED << pc, other_vars, latest_result, startup_results, job, completed >>

WebNext ==
    \/ main_startup_raises
    \/ main_startup
    \/ run_qaoa_job_called
    \/ run_qaoa_job_raises
    \/ run_qaoa_job_returns
    \/ home_called
    \/ home_reads

WebSpec == WebInit /\ [][WebNext]_vars


\* ------------------------------------------------------------------ C30
\* the result of the most recent job that returned, {} if none has
LastCompleted == IF completed = << >> THEN EmptyDict ELSE completed[Len(completed)]

\* the page that shows the dictionary d
PageOf(d) ==
    ResultPage(<< d.selected_assets, d.portfolio_return, d.portfolio_risk,
                  d.objective_value >>)

\* latest_result is the result of the most recent job that returned: a job
\* that raises changes nothing, the run at import is not published
PublishedIsLastCompleted == latest_result = LastCompleted

\* the page home() returned shows one result, the most recent one at some
\* moment of the request, or is the 'No data yet' page of a request made
\* before any job returned
PageShowsLastCompleted ==
    page # None =>
        \/ page.started_after = 0 /\ page.body = NoDataPage
        \/ \E k \in Max(1, page.started_after) .. Len(completed) :
              page.body = PageOf(completed[k])

\* C30: while main.py serves, latest_result is the result of the most recent
\* run_qaoa_job that returned ({} when none has, whatever the run at import
\* returned, and unchanged by a job that raises), and every page home()
\* returns shows that result, or 'No data yet' when no job has returned.
C30_ServesLatestCompletedJob ==
    pc = "serving" => (PublishedIsLastCompleted /\ PageShowsLastCompleted)
=============================================================================
